---- MODULE Spec2Model ----
(***************************************************************************)
(* A model of the Magic Caster Wand BLE integration                        *)
(* (custom_components/magic_caster_wand/mcw_ble).                          *)
(*                                                                         *)
(*   Spec        McwClient: write_command / read / _handler and the        *)
(*               disconnect_on_missing_services wrapper (mcw.py), run by   *)
(*               coroutines that the asyncio loop interleaves at awaits.   *)
(*   SpecWrap    disconnect_on_missing_services around start_notify,       *)
(*               stop_notify and write, one wrapped call per step.         *)
(*   SpecParse   Protocol.parse_response / parse_stream (protocol.py) as   *)
(*               pure functions over byte sequences.                       *)
(*   SpecDevice  McwDevice (parser.py): coordinator callbacks, the button  *)
(*               edge detector and the spell reset timer.                  *)
(*   SpecTracker SpellTracker (spell_tracker.py): start / update / stop    *)
(*               and the bounded path buffer.                              *)
(*   SpecDetect  RemoteTensorSpellDetector.detect over the replies of the  *)
(*               inference server.                                         *)
(*   SpecBuild   Protocol.build_set_threshold over lists of byte pairs.    *)
(*   SpecClassify  ShapeSpellDetector.detect over template sets, scores    *)
(*               and thresholds.                                           *)
(*   SpecIO      GestureIO.save / load over template dictionaries and      *)
(*               paths.                                                    *)
(*   SpecShape   the preprocessing of a gesture path by the template       *)
(*               strategy and by the learned-classifier strategy.          *)
(***************************************************************************)
EXTENDS Integers, Sequences, FiniteSets, TLC

VARIABLES
    \* ---- McwClient (mcw.py) ----
    connected,      \* self.client.is_connected
    command_data,   \* self.command_data: "None" or a payload
    event,          \* self.event (asyncio.Event): TRUE when set
    pc,             \* per caller of write_command: where its coroutine is suspended
    attempt,        \* per caller: the loop variable `attempt`
    resp,           \* per caller: the `response` argument
    result,         \* per caller: value returned ("" while none)
    exc,            \* per caller: exception raised to the caller ("" while none)
    ncalls,         \* per caller: calls of write_command started so far
    hist,           \* per caller: history of the current call (attempt outcomes)
    \* ---- disconnect_on_missing_services (mcw.py), SpecWrap ----
    wconnected,     \* self.client.is_connected
    wrap,           \* history of the last wrapped call
    nwrapped,       \* wrapped calls made so far
    \* ---- Protocol (protocol.py) ----
    data,           \* the byte sequence handed to the parser
    parsed,         \* what the decoders gave for data, once parsed
    \* ---- McwDevice (parser.py), SpecDevice ----
    spell_tracker,       \* self._spell_tracker is not None
    coordinators,        \* register_coordinator has run (_coordinator_spell, _buttons)
    button_all_pressed,  \* self._button_all_pressed: "unset" until first assigned
    reset_task,          \* self._spell_reset_timeout_task: unassigned, None (0) or a task
    tasks,               \* the tasks made by asyncio.create_task, in order
    tracker_active,      \* SpellTracker._active
    tracker_calls,       \* the calls made on the tracker: "start" / "stop"
    spell_data,          \* the values given to the spell coordinator, in order
    buttons_data,        \* the mask last given to the button coordinator ({} if none)
    last,                \* history: the last button event delivered and what it did
    client_state,        \* self.client: "None", "connected" or "closed" (not connected)
    link,                \* history: disconnect() or link fault since the last button event
    imu,                 \* history: the IMU batch given to _callback_imu since then
    session,             \* self._mcw made, its notifications started, self.model read
    call,                \* history: the connect() or disconnect() call made since then
    \* ---- SpellTracker (spell_tracker.py), SpecTracker ----
    active,          \* self._active
    points_count,    \* self._points_count
    ref_forward,     \* self._ref_forward: 0 for None, else the update that recorded it
    ref_up,          \* self._ref_up: "None" / "set"
    grav_est,        \* self._grav_est: "None" / "initial" / "filtered"
    plane,           \* self._plane_x, self._plane_y: "None" / "initial" / "rebuilt"
    quat,            \* self._quat: "identity" / "estimate"
    smoothed,        \* self._smoothed: "zero" / "filtered"
    ret,             \* history: the last call on the tracker and what it gave
    starts,          \* history: calls of start() so far
    updates,         \* history: calls of update() since the last start()
    buffered,        \* history: points stored in the buffer since the last start()
    prior,           \* history: the tracker as the last start() found it
    \* ---- RemoteTensorSpellDetector (remote_tensor_spell_detector.py), SpecDetect ----
    reply,           \* what the server did with the last invoke request
    detected,        \* what detect() gave for it
    \* ---- Protocol.build_set_threshold (protocol.py), SpecBuild ----
    thresholds,      \* the list handed to build_set_threshold
    built,           \* what build_set_threshold gave for it
    \* ---- path preprocessing (shape_spell_detector.py, gesture_core.py,
    \*      spell_tracker.py), SpecShape ----
    path,            \* the (x, y) points of one gesture
    pre,             \* what the preprocessing steps gave for it
    \* ---- ShapeSpellDetector.detect (shape_spell_detector.py), SpecClassify ----
    templates,       \* self.templates in insertion order: label and length
    classified,      \* the last detect() call: its inputs and what it gave
    \* ---- GestureIO (gesture_io.py), SpecIO ----
    fs,              \* the file system: what is stored at each path
    saved,           \* for each path, the dictionary of the last save that returned
    io,              \* the last save or load: its arguments and what it gave
    \* ---- McwDevice.__init__ (parser.py:56-64) ----
    construction,    \* how the constructor's try block went
    \* ---- McwDevice._callback_spell (parser.py:74-80) ----
    native           \* the native spell events so far: name, coordinator there

clientVars == <<connected, command_data, event, pc, attempt, resp, result, exc,
                ncalls, hist>>
wrapVars   == <<wconnected, wrap, nwrapped>>
parseVars  == <<data, parsed>>
linkVars   == <<client_state, link, imu, session, call>>
deviceVars == <<spell_tracker, coordinators, button_all_pressed, reset_task, tasks,
                tracker_active, tracker_calls, spell_data, buttons_data, last,
                client_state, link, imu, session, call>>
trackerVars == <<active, points_count, ref_forward, ref_up, grav_est, plane, quat,
                 smoothed, ret, starts, updates, buffered, prior>>
detectVars == <<reply, detected>>
buildVars  == <<thresholds, built>>
shapeVars  == <<path, pre>>
classifyVars == <<templates, classified>>
ioVars     == <<fs, saved, io>>
laterRest  == <<detectVars, buildVars, shapeVars, classifyVars, ioVars, construction>>
laterVars  == <<laterRest, native>>
coreVars   == <<clientVars, wrapVars, parseVars, deviceVars, trackerVars, construction, native>>
restDetect == <<coreVars, buildVars, shapeVars, classifyVars, ioVars>>
restBuild  == <<coreVars, detectVars, shapeVars, classifyVars, ioVars>>
restShape  == <<coreVars, detectVars, buildVars, classifyVars, ioVars>>
restClassify == <<coreVars, detectVars, buildVars, shapeVars, ioVars>>
restIO     == <<coreVars, detectVars, buildVars, shapeVars, classifyVars>>
otherVars  == <<wrapVars, parseVars, deviceVars, trackerVars, laterVars>>
vars       == <<clientVars, wrapVars, parseVars, deviceVars, trackerVars, laterVars>>

(***************************************************************************)
(* Bounds and program constants                                            *)
(***************************************************************************)
\* calls of write_command one caller makes
MaxCalls == 1

\* wrapped operations called in one behaviour of SpecWrap
MaxWrapped == 4

\* length of the byte sequences handed to the parser
MaxLen == 8

\* pairs in the list handed to build_set_threshold
MaxPairs == 5

\* points of one gesture path
MaxPath == 4

\* templates loaded into one ShapeSpellDetector
MaxTemplates == 2

\* the number of points every path is resampled to (shape_spell_detector.py:36,
\* 83; spell_tracker.py:268-273)
ResampleN == 50

\* IMU samples in one notification batch
MaxBatch == 2

\* values handed to the spell coordinator in one behaviour of SpecDevice
MaxSpells == 2

\* calls of SpellTracker.start() in one behaviour of SpecTracker
MaxStarts == 2

\* calls of update() on a full buffer that one session is followed through
MaxOverflow == 2

\* spell_tracker.py:90  _MAX_POINTS = 8192
MAX_POINTS == 8192

\* mcw.py:133  max_retries = 3
max_retries == 3

\* The coroutines that call write_command on one McwClient (the entity
\* services, and the LED tasks spawned by McwDevice._callback_buttons).
Callers == {"c1", "c2"}

\* Notification payloads: an empty bytearray, a command response, a streamed
\* event.
Payloads == {"empty", "response", "stream"}

\* Outcomes of BleakClient.write_gatt_char / start_notify / stop_notify.
\* "missing" stands for BleakServiceMissing / BleakCharacteristicMissing
\* (mcw.py:23-27), "io" for any other BleakError.
Faults == {"io", "missing"}

Wrapped == {"start_notify", "stop_notify", "write"}

(***************************************************************************)
(* disconnect_on_missing_services (mcw.py:31-44)                           *)
(***************************************************************************)
\* The calls the except branch makes on self.client, given whether the
\* client is connected and whether clear_cache / disconnect raise.
\* mcw.py:37-42: both calls sit in one try; a raise of clear_cache skips
\* disconnect.
WrapperCalls(isConn, cc, dc) ==
    IF ~isConn THEN <<>>
    ELSE IF cc = "fail" THEN <<"clear_cache">>
    ELSE <<"clear_cache", "disconnect">>

\* is_connected after the except branch has run.
WrapperConnected(isConn, cc, dc) ==
    IF isConn /\ cc = "ok" /\ dc = "ok" THEN FALSE ELSE isConn

\* What the wrapper raises to its caller: the bare `raise` of mcw.py:43
\* re-raises the fault being handled; the inner `except Exception: pass`
\* swallows a failure of clear_cache or disconnect.
WrapperRaises(fault, cc, dc) == fault

\* The wrapper around one operation (start_notify, stop_notify, write) whose
\* body ended with `outcome`: "ok", or the fault it raised.  Only a missing
\* service or characteristic enters the except branch (mcw.py:36).
WrapperRun(op, isConn, outcome, cc, dc) ==
    IF outcome = "missing"
    THEN [op |-> op, outcome |-> outcome, wasConnected |-> isConn,
          ccFails |-> isConn /\ cc = "fail",
          dcFails |-> isConn /\ cc = "ok" /\ dc = "fail",
          calls |-> WrapperCalls(isConn, cc, dc),
          raised |-> WrapperRaises(outcome, cc, dc),
          connected |-> WrapperConnected(isConn, cc, dc)]
    ELSE [op |-> op, outcome |-> outcome, wasConnected |-> isConn,
          ccFails |-> FALSE, dcFails |-> FALSE, calls |-> <<>>,
          raised |-> IF outcome = "ok" THEN "" ELSE outcome,
          connected |-> isConn]

(***************************************************************************)
(* McwClient.write_command (mcw.py:131-150)                                *)
(***************************************************************************)
NoHist == [fails |-> 0, last |-> "", missing |-> FALSE, first |-> ""]

\* The retry test off by one: the third failure is retried too.
ShouldRetryLate(a) == a <= max_retries

\* mcw.py:146  if attempt < max_retries
ShouldRetry(a) == a < max_retries

\* mcw.py:136-139 (141-142): the start of one loop iteration, up to the
\* suspension inside self.write: with response the slot and the event are
\* cleared, then the packet is handed to write_gatt_char.
BeginAttempt(t, a, r) ==
    /\ attempt' = [attempt EXCEPT ![t] = a]
    /\ command_data' = IF r THEN "None" ELSE command_data
    /\ event' = IF r THEN FALSE ELSE event
    /\ pc' = [pc EXCEPT ![t] = "writing"]
    /\ hist' = IF a = 1 THEN [hist EXCEPT ![t] = NoHist]
               ELSE IF r THEN [hist EXCEPT ![t].first = ""] ELSE hist

\* A caller awaits write_command(packet, response).
CallWriteCommand(t, r) ==
    /\ pc[t] = "idle"
    /\ ncalls[t] < MaxCalls
    /\ ncalls' = [ncalls EXCEPT ![t] = @ + 1]
    /\ resp' = [resp EXCEPT ![t] = r]
    /\ result' = [result EXCEPT ![t] = ""]
    /\ exc' = [exc EXCEPT ![t] = ""]
    /\ BeginAttempt(t, 1, r)
    /\ UNCHANGED <<connected, otherVars>>

\* mcw.py:144-150: the except branch of one iteration that ended with fault f.
HandleFault(t, f) ==
    /\ hist' = [hist EXCEPT ![t].fails = @ + 1, ![t].last = f,
                            ![t].missing = @ \/ (f = "missing")]
    /\ IF ShouldRetry(attempt[t])
       THEN /\ pc' = [pc EXCEPT ![t] = "backoff"]
            /\ UNCHANGED <<exc>>
       ELSE /\ pc' = [pc EXCEPT ![t] = "raised"]
            /\ exc' = [exc EXCEPT ![t] = f]

\* write_gatt_char completes (mcw.py:84-89 under the wrapper of 31-44).
WriteDone(t, outcome, cc, dc) ==
    /\ pc[t] = "writing"
    /\ connected' = WrapperRun("write", connected, outcome, cc, dc).connected
    /\ IF outcome = "ok"
       THEN /\ hist' = [hist EXCEPT ![t].last = IF resp[t] THEN @ ELSE "ok"]
            /\ IF resp[t]
               THEN /\ pc' = [pc EXCEPT ![t] = "reading"]      \* mcw.py:140
                    /\ UNCHANGED <<result>>
               ELSE /\ pc' = [pc EXCEPT ![t] = "returned"]     \* mcw.py:143
                    /\ result' = [result EXCEPT ![t] = "empty"]
            /\ UNCHANGED <<exc>>
       ELSE /\ HandleFault(t, outcome)
            /\ UNCHANGED <<result>>
    /\ UNCHANGED <<command_data, event, attempt, resp, ncalls, otherVars>>

\* mcw.py:126-129: read() once the event is set.
ReadValue == IF command_data \in {"None", "empty"} THEN "empty" ELSE command_data

\* The event was set when read() began: event.wait() returns at once.
ReadReturn(t) ==
    /\ pc[t] = "reading"
    /\ event
    /\ pc' = [pc EXCEPT ![t] = "returned"]
    /\ result' = [result EXCEPT ![t] = ReadValue]
    /\ hist' = [hist EXCEPT ![t].last = "ok"]
    /\ UNCHANGED <<connected, command_data, event, attempt, resp, exc, ncalls,
                   otherVars>>

\* mcw.py:127: wait_for gives up after `timeout` seconds: TimeoutError, which
\* the `except Exception` of write_command catches like a write fault.
ReadTimeout(t) ==
    /\ pc[t] = "reading"
    /\ ~event
    /\ HandleFault(t, "timeout")
    /\ UNCHANGED <<connected, command_data, event, attempt, resp, result, ncalls,
                   otherVars>>

\* mcw.py:127-129: a caller whose wait was ended by event.set() runs again,
\* after whatever task was ready before it, and reads the slot as it is then.
ReadWoken(t) ==
    /\ pc[t] = "woken"
    /\ pc' = [pc EXCEPT ![t] = "returned"]
    /\ result' = [result EXCEPT ![t] = ReadValue]
    /\ hist' = [hist EXCEPT ![t].last = "ok"]
    /\ UNCHANGED <<connected, command_data, event, attempt, resp, exc, ncalls,
                   otherVars>>

\* mcw.py:148-149: sleep(0.5) is over; `continue` takes the next value of
\* range(1, max_retries + 1), or leaves the loop when there is none, and the
\* function then returns None.
BackoffDone(t) ==
    /\ pc[t] = "backoff"
    /\ IF attempt[t] + 1 <= max_retries
       THEN /\ BeginAttempt(t, attempt[t] + 1, resp[t])
            /\ UNCHANGED <<result>>
       ELSE /\ pc' = [pc EXCEPT ![t] = "returned"]
            /\ result' = [result EXCEPT ![t] = "None"]
            /\ UNCHANGED <<attempt, command_data, event, hist>>
    /\ UNCHANGED <<connected, resp, exc, ncalls, otherVars>>

\* The caller has taken the result or the exception.
Finish(t) ==
    /\ pc[t] \in {"returned", "raised"}
    /\ pc' = [pc EXCEPT ![t] = "idle"]
    /\ attempt' = [attempt EXCEPT ![t] = 0]
    /\ resp' = [resp EXCEPT ![t] = FALSE]
    /\ result' = [result EXCEPT ![t] = ""]
    /\ exc' = [exc EXCEPT ![t] = ""]
    /\ hist' = [hist EXCEPT ![t] = NoHist]
    /\ UNCHANGED <<connected, command_data, event, ncalls, wrap, otherVars>>

(***************************************************************************)
(* McwClient._handler (mcw.py:98-102): the pending-response slot           *)
(***************************************************************************)
\* event.set() ends the wait of every caller inside read(); hist keeps, for
\* each call that expects a response, the first payload stored since the
\* call cleared the slot.
Notify(p) ==
    /\ connected
    /\ IF command_data = "None"
       THEN /\ command_data' = p                                     \* 101
            /\ event' = TRUE                                         \* 102
            /\ pc' = [t \in Callers |-> IF pc[t] = "reading" THEN "woken" ELSE pc[t]]
            /\ hist' = [t \in Callers |->
                          IF resp[t] /\ pc[t] \in {"writing", "reading"}
                                     /\ hist[t].first = ""
                          THEN [hist[t] EXCEPT !.first = p] ELSE hist[t]]
       ELSE UNCHANGED <<command_data, event, pc, hist>>
    /\ UNCHANGED <<connected, attempt, resp, result, exc, ncalls, otherVars>>

(***************************************************************************)
(* The wrapped operations on their own: start_notify (mcw.py:74-78),       *)
(* stop_notify (80-82) and write (84-89)                                   *)
(***************************************************************************)
WrappedCall(op, outcome, cc, dc) ==
    /\ nwrapped < MaxWrapped
    /\ nwrapped' = nwrapped + 1
    /\ wrap' = WrapperRun(op, wconnected, outcome, cc, dc)
    /\ wconnected' = wrap'.connected
    /\ UNCHANGED <<clientVars, parseVars, deviceVars, trackerVars, laterVars>>

\* McwDevice.connect (parser.py:177-191) opens a connection again.
Reconnect ==
    /\ ~wconnected
    /\ wconnected' = TRUE
    /\ UNCHANGED <<wrap, nwrapped, clientVars, parseVars, deviceVars, trackerVars, laterVars>>

NoWrap == [op |-> "", outcome |-> "", wasConnected |-> FALSE, ccFails |-> FALSE,
           dcFails |-> FALSE, calls |-> <<>>, raised |-> "", connected |-> TRUE]

(***************************************************************************)
(* Bytes and text (the library calls protocol.py makes)                    *)
(***************************************************************************)
Min(a, b) == IF a < b THEN a ELSE b

\* Python's s[i:j] on a sequence, 0-based and clamped to the length.
Slice(s, i, j) == SubSeq(s, Min(i, Len(s)) + 1, Min(j, Len(s)))

\* s[::-1]
Reverse(s) == [i \in 1..Len(s) |-> s[Len(s) + 1 - i]]

\* UTF-8 as bytes.decode reads it, for the one- and two-byte forms; a lead
\* byte of a longer form (0xE0..0xF4) is outside the inputs drawn below.
IsAscii(b) == b < 128
IsCont(b)  == b >= 128 /\ b <= 191
IsLead2(b) == b >= 194 /\ b <= 223

\* The code points of bytes s from index i on, by bytes.decode('utf-8',
\* errors='ignore'): an undecodable byte is dropped and decoding goes on
\* behind it.
RECURSIVE DecodeFrom(_, _)
DecodeFrom(s, i) ==
    IF i > Len(s) THEN <<>>
    ELSE IF IsAscii(s[i]) THEN <<s[i]>> \o DecodeFrom(s, i + 1)
    ELSE IF IsLead2(s[i]) /\ i < Len(s) /\ IsCont(s[i + 1])
         THEN <<(s[i] - 192) * 64 + (s[i + 1] - 128)>> \o DecodeFrom(s, i + 2)
    ELSE DecodeFrom(s, i + 1)

DecodeIgnore(s) == DecodeFrom(s, 1)

\* Whether bytes.decode('utf-8') succeeds (it raises UnicodeDecodeError
\* otherwise).
RECURSIVE ValidFrom(_, _)
ValidFrom(s, i) ==
    IF i > Len(s) THEN TRUE
    ELSE IF IsAscii(s[i]) THEN ValidFrom(s, i + 1)
    ELSE IF IsLead2(s[i]) /\ i < Len(s) /\ IsCont(s[i + 1]) THEN ValidFrom(s, i + 2)
    ELSE FALSE

Utf8Valid(s) == ValidFrom(s, 1)

\* str.isspace for the code points below 256.
IsSpace(c) == c \in {9, 10, 11, 12, 13, 28, 29, 30, 31, 32, 133, 160}

\* str.strip()
RECURSIVE LStrip(_)
LStrip(t) == IF t # <<>> /\ IsSpace(Head(t)) THEN LStrip(Tail(t)) ELSE t

Strip(t) == Reverse(LStrip(Reverse(LStrip(t))))

\* str.replace('\x00', '')
RECURSIVE DropNul(_)
DropNul(t) ==
    IF t = <<>> THEN <<>>
    ELSE IF Head(t) = 0 THEN DropNul(Tail(t))
    ELSE <<Head(t)>> \o DropNul(Tail(t))

\* str.replace('_', ' ')
UnderscoreToSpace(t) == [i \in 1..Len(t) |-> IF t[i] = 95 THEN 32 ELSE t[i]]

\* text.startswith("MCW")
StartsWithMCW(t) == Len(t) >= 3 /\ SubSeq(t, 1, 3) = <<77, 67, 87>>

HexUpper == <<"0", "1", "2", "3", "4", "5", "6", "7", "8", "9",
              "A", "B", "C", "D", "E", "F">>
HexLower == <<"0", "1", "2", "3", "4", "5", "6", "7", "8", "9",
              "a", "b", "c", "d", "e", "f">>

\* f'{b:02X}'
Hex02X(b) == HexUpper[(b \div 16) + 1] \o HexUpper[(b % 16) + 1]

\* ':'.join(f'{b:02X}' for b in bs)
RECURSIVE JoinHex(_)
JoinHex(bs) ==
    IF bs = <<>> THEN ""
    ELSE IF Len(bs) = 1 THEN Hex02X(bs[1])
    ELSE Hex02X(bs[1]) \o ":" \o JoinHex(Tail(bs))

\* bytes.hex()
RECURSIVE HexString(_)
HexString(bs) ==
    IF bs = <<>> THEN ""
    ELSE HexLower[(bs[1] \div 16) + 1] \o HexLower[(bs[1] % 16) + 1]
         \o HexString(Tail(bs))

\* struct.unpack('<I', b)[0] of four bytes, as <<high 16 bits, low 16 bits>>.
UnpackU32LE(b) == <<b[3] + 256 * b[4], b[1] + 256 * b[2]>>

(***************************************************************************)
(* Protocol.parse_response (protocol.py:214-307)                           *)
(***************************************************************************)
NoneValue == [kind |-> "None"]
Raise(e)  == [kind |-> "Raise", error |-> e]

\* protocol.py:2, 52  `from enum import IntEnum` and `class WandModel(Enum)`:
\* Enum is never imported, so the class statement raises NameError and the
\* name WandModel is never bound.
WandModelBound == FALSE

\* protocol.py:52-60, 254-257  WandModel(tid); a ValueError becomes UNKNOWN,
\* a NameError is not caught.
WandModelOf(tid) ==
    IF ~WandModelBound THEN "NameError"
    ELSE CASE tid = 0   -> "HARRY_POTTER"
           [] tid = 1   -> "HERMIONE_GRANGER"
           [] tid = 2   -> "RON_WEASLEY"
           [] tid = 3   -> "DUMBLEDORE"
           [] tid = 4   -> "NEWT_SCAMANDER"
           [] tid = 5   -> "WISE_UNKNOWN"
           [] tid = 255 -> "UNKNOWN"
           [] OTHER     -> "UNKNOWN"

\* protocol.py:259-267, 271  desc_map.get(model, "Unknown")
DescMap(model) ==
    CASE model = "HARRY_POTTER"     -> "Harry Potter (Adventurous)"
      [] model = "HERMIONE_GRANGER" -> "Hermione Granger (Defiant)"
      [] model = "RON_WEASLEY"      -> "Ron Weasley (Heroic)"
      [] model = "DUMBLEDORE"       -> "Dumbledore (Honourable)"
      [] model = "NEWT_SCAMANDER"   -> "Newt Scamander (Loyal)"
      [] model = "WISE_UNKNOWN"     -> "Wise"
      [] model = "UNKNOWN"          -> "Unknown Model"
      [] OTHER                      -> "Unknown"

\* protocol.py:276 raw_val.decode('utf-8', errors='ignore').strip().replace('\x00', '')
CleanText(raw) == DropNul(Strip(DecodeIgnore(raw)))

\* protocol.py:246  if len(raw_val) >= 4
SerialGuard(raw) == Len(raw) >= 4

\* protocol.py:228  except UnicodeDecodeError: pass
CatchesDecodeError == TRUE

\* protocol.py:223-229: "Found" with the firmware response, "Next" to go on,
\* or the UnicodeDecodeError when nothing catches it.
FirmwareStep(d) ==
    IF Utf8Valid(d)
    THEN IF StartsWithMCW(DecodeIgnore(d))
         THEN [kind |-> "ResponseFirmware", version |-> Strip(DecodeIgnore(d))]
         ELSE [kind |-> "Next"]
    ELSE IF CatchesDecodeError THEN [kind |-> "Next"]
         ELSE Raise("UnicodeDecodeError")

\* protocol.py:300-307
ThresholdStep(d) ==
    IF d[1] = 222 /\ Len(d) = 4
    THEN [kind |-> "ResponseThreshold", button_index |-> d[2], min_val |-> d[3],
          max_val |-> d[4]]
    ELSE NoneValue

\* protocol.py:240-296: the product-info branch; a sub-type whose inner
\* condition fails, and an unknown sub-type, fall through to the threshold
\* check.
ProductInfoStep(d) ==
    LET info_type == d[2]
        raw_val   == Slice(d, 2, Len(d))
    IN  CASE info_type = 1 ->
               IF SerialGuard(raw_val)
               THEN IF Len(Slice(raw_val, 0, 4)) = 4
                    THEN [kind |-> "ResponseSerialNumber",
                          number |-> UnpackU32LE(Slice(raw_val, 0, 4)),
                          hex_string |-> HexString(raw_val)]
                    ELSE Raise("struct.error")
               ELSE ThresholdStep(d)
          [] info_type = 9 ->
               IF Len(raw_val) >= 1
               THEN IF WandModelOf(raw_val[1]) = "NameError"
                    THEN Raise("NameError")
                    ELSE [kind |-> "ResponseWandType", model_id |-> raw_val[1],
                          model_name |-> WandModelOf(raw_val[1]),
                          description |-> DescMap(WandModelOf(raw_val[1]))]
               ELSE ThresholdStep(d)
          [] info_type = 2 -> [kind |-> "ResponseSKU", sku |-> CleanText(raw_val)]
          [] info_type = 3 -> [kind |-> "ResponseManufacturerID", name |-> CleanText(raw_val)]
          [] info_type = 4 -> [kind |-> "ResponseDeviceID", id_string |-> CleanText(raw_val)]
          [] info_type = 5 -> [kind |-> "ResponseEdition", edition |-> CleanText(raw_val)]
          [] info_type = 8 ->
               IF Len(raw_val) = 6
               THEN [kind |-> "ResponseCompanionAddress",
                     mac_address |-> JoinHex(Reverse(raw_val))]
               ELSE ThresholdStep(d)
          [] OTHER -> ThresholdStep(d)

parse_response(d) ==
    IF d = <<>> THEN NoneValue                                  \* 216-217
    ELSE LET fw == FirmwareStep(d)
         IN  IF fw.kind # "Next" THEN fw
             ELSE IF d[1] = 10 /\ Len(d) = 7                    \* 233-236
                  THEN [kind |-> "ResponseBoxAddress",
                        mac_address |-> JoinHex(Reverse(Slice(d, 1, Len(d))))]
             ELSE IF d[1] = 14 /\ Len(d) >= 3 THEN ProductInfoStep(d)
             ELSE ThresholdStep(d)

(***************************************************************************)
(* Protocol.parse_stream (protocol.py:309-366)                             *)
(***************************************************************************)
\* protocol.py:336  if len(data) < 6
SpellMinLen(d) == Len(d) < 6

\* protocol.py:334-356, the body of the try
SpellBody(d) ==
    IF SpellMinLen(d) THEN NoneValue
    ELSE IF Len(d) < 5 THEN Raise("IndexError")                 \* data[4]
    ELSE LET spell_len  == d[5]
             raw_name   == Slice(d, 5, 5 + spell_len)
             spell_name == UnderscoreToSpace(DropNul(Strip(DecodeIgnore(raw_name))))
         IN  IF spell_name = <<>> THEN NoneValue
             ELSE [kind |-> "EventSpell", name |-> spell_name, raw_bytes |-> raw_name]

\* protocol.py:358-360  except Exception: return None
SpellStep(d) == IF SpellBody(d).kind = "Raise" THEN NoneValue ELSE SpellBody(d)

\* (mask & bit) > 0 read as mask >= bit
BitSetLoose(mask, bit) == mask >= bit

\* (mask & bit) > 0
BitSet(mask, bit) == (mask \div bit) % 2 = 1

parse_stream(d) ==
    IF d = <<>> \/ Len(d) < 2 THEN NoneValue                    \* 311-312
    ELSE IF d[1] = 17                                           \* 318-326
         THEN [kind |-> "EventButton", mask |-> d[2],
               is_big_pressed |-> BitSet(d[2], 1), is_top_pressed |-> BitSet(d[2], 2),
               is_mid_pressed |-> BitSet(d[2], 4), is_bot_pressed |-> BitSet(d[2], 8)]
    ELSE IF d[1] = 36 THEN SpellStep(d)                         \* 333-360
    ELSE NoneValue                                              \* 366

\* mcw.py:104-124  the spell branch of McwClient._handler with a spell
\* callback registered: the callback's argument, or None when it is not
\* called.  Nothing in the try raises for a payload of 5 bytes or more.
HandlerSpell(d) ==
    IF d = <<>> \/ Len(d) < 2 THEN NoneValue                    \* 104-105
    ELSE IF d[1] # 36 THEN NoneValue                            \* 107
    ELSE IF Len(d) < 5 THEN NoneValue                           \* 109-110
    ELSE LET spell_len  == d[4]                                 \* 111
             raw_name   == Slice(d, 4, 4 + spell_len)           \* 112
             spell_name == UnderscoreToSpace(DropNul(Strip(DecodeIgnore(raw_name))))
         IN  IF spell_name = <<>> THEN NoneValue                \* 115-116
             ELSE [kind |-> "callback_spell", name |-> spell_name,
                   raw_bytes |-> raw_name]                      \* 119-120

\* mcw.py:165-179  get_wand_address / get_box_address for the bytes that
\* write_command returned.
GetAddress(d) ==
    IF Len(d) < 7 THEN ""                                       \* 167-168, 175-176
    ELSE JoinHex(Reverse(Slice(d, 1, 7)))                       \* 169-171, 177-179

\* The bytes drawn for each position of a payload: the opcodes, 'M' and a
\* line feed first; the product-info sub-types, 'C', a lone continuation
\* byte and the button masks 0, 0b0011 and 0b1111 second; then a model id /
\* 'W' / an invalid byte; then NUL, '_' and a continuation byte (also read
\* as length byte or name).
ByteAt(i) ==
    CASE i = 1 -> {10, 14, 222, 17, 36, 77, 0}
      [] i = 2 -> {0, 1, 2, 3, 6, 8, 9, 15, 67, 128}
      [] i = 3 -> {87, 0, 255}
      [] OTHER -> {0, 95, 128}

AppendByte(b) ==
    /\ parsed = <<>>
    /\ Len(data) < MaxLen
    /\ b \in ByteAt(Len(data) + 1)
    /\ data' = Append(data, b)
    /\ UNCHANGED <<parsed, clientVars, wrapVars, deviceVars, trackerVars, laterVars>>

Parse ==
    /\ parsed = <<>>
    /\ parsed' = <<parse_response(data), parse_stream(data), GetAddress(data),
                   HandlerSpell(data)>>
    /\ UNCHANGED <<data, clientVars, wrapVars, deviceVars, trackerVars, laterVars>>

(***************************************************************************)
(* McwDevice (parser.py)                                                   *)
(***************************************************************************)
\* What SpellTracker.stop() returns (spell_tracker.py:209-215, 295-298): a
\* name of SPELL_NAMES or None.
StopOutcomes == {"None", "Lumos"}

\* Names the wand itself reports (McwClient's spell callback).
NativeSpells == {"Nox"}

\* The button masks of the events: none pressed, one pressed, all but one
\* pressed, all four pressed.
ButtonMasks == {0, 1, 14, 15}

\* parser.py:94  data.get("button_all", False), for the dict McwClient builds
\* from a button mask: all four pads pressed.
ButtonAll(mask) == mask = 15

NoTask == [assigned |-> TRUE, task |-> 0]

NoEvent == [mask |-> 0, all |-> FALSE, prev |-> FALSE, outcome |-> "None",
            tracked |-> FALSE, coord |-> FALSE, raised |-> "", started |-> FALSE, stopped |-> FALSE,
            published |-> FALSE, armed |-> FALSE, cancel_ran |-> FALSE]

NoLink == [op |-> "", coord |-> FALSE]

NoBatch == [n |-> 0, calls |-> 0, published |-> FALSE]

\* parser.py:46-47  self.model = None, self._mcw = None.
NoSession == [mcw |-> FALSE, notifying |-> FALSE, model |-> FALSE]

NoCall == [op |-> "", was |-> FALSE, ret |-> "None", raised |-> FALSE, done |-> <<>>,
           tracked |-> FALSE, coord |-> FALSE, published |-> FALSE]

\* parser.py:45  self.client = None; no link event or IMU batch yet.
InitLink ==
    /\ client_state = "None"
    /\ link = NoLink
    /\ imu = NoBatch
    /\ session = NoSession
    /\ call = NoCall

\* The reset tasks that are still asleep.
PendingResets == {k \in 1..Len(tasks) : tasks[k].kind = "reset" /\ tasks[k].state = "pending"}

\* remote_tensor_spell_detector.py:17-33  RemoteTensorSpellDetector(...):
\* built, the model file gone (29-30), or the upload refused (33, 82-90)
DetectorOutcomes == {"ok", "FileNotFoundError", "HTTPError"}

\* spell_tracker.py:87-110  SpellTracker(detector): built, or a default
\* factory raised
TrackerOutcomes == {"ok", "error"}

\* parser.py:63  `except:` read as `except FileNotFoundError:`
CaughtIfMissingFile(e) == e = "FileNotFoundError"

\* parser.py:63  the bare `except:` catches every exception
Caught(e) == TRUE

\* parser.py:56-64  the try block of McwDevice.__init__: what was evaluated,
\* whether self._spell_tracker was assigned and what the constructor raised
McwDeviceInit(exists, d, t) ==
    LET e == IF ~exists THEN "None"                  \* 57
             ELSE IF d # "ok" THEN d                 \* 59-62
             ELSE IF t # "ok" THEN t                 \* 58
             ELSE "None"
    IN  [exists |-> exists,
         detector |-> IF exists THEN d ELSE "not built",
         built |-> IF exists /\ d = "ok" THEN t ELSE "not built",
         tracker |-> exists /\ e = "None",
         raised |-> IF e # "None" /\ ~Caught(e) THEN e ELSE "None"]

\* parser.py:269-274
spell_detection_mode == IF spell_tracker THEN "server" ELSE "wand"

\* parser.py:42-64  McwDevice.__init__: the tracker exists when the model
\* file is there and the detector was built.  Neither _button_all_pressed nor
\* _spell_reset_timeout_task is assigned (nor _casting_led_color).
InitDevice ==
    /\ \E exists \in BOOLEAN, d \in DetectorOutcomes, t \in TrackerOutcomes :
           construction = McwDeviceInit(exists, d, t)
    /\ spell_tracker = construction.tracker
    /\ coordinators = FALSE
    /\ button_all_pressed = "unset"
    /\ reset_task = [assigned |-> FALSE, task |-> 0]
    /\ tasks = <<>>
    /\ tracker_active = FALSE
    /\ tracker_calls = <<>>
    /\ spell_data = <<>>
    /\ buttons_data = {}
    /\ last = NoEvent
    /\ native = <<>>
    /\ InitLink

\* parser.py:66-72
RegisterCoordinator ==
    /\ ~coordinators
    /\ coordinators' = TRUE
    /\ UNCHANGED <<linkVars, spell_tracker, button_all_pressed, reset_task, tasks, tracker_active,
                   tracker_calls, spell_data, buttons_data, last, clientVars, wrapVars,
                   parseVars, trackerVars, laterVars>>

\* parser.py:77  with the native events let through
NativeIgnoredNever(tracked) == FALSE

\* parser.py:77  if self._spell_tracker is not None: return
NativeIgnored(tracked) == tracked

\* parser.py:74-80  _callback_spell
CallbackSpell(name) ==
    /\ Len(native) < MaxSpells
    /\ native' = Append(native, [name |-> name, coord |-> coordinators])
    /\ spell_data' = IF ~NativeIgnored(spell_tracker) /\ coordinators
                     THEN Append(spell_data, name) ELSE spell_data
    /\ UNCHANGED <<linkVars, spell_tracker, coordinators, button_all_pressed, reset_task, tasks,
                   tracker_active, tracker_calls, buttons_data, last, clientVars,
                   wrapVars, parseVars, trackerVars, laterRest>>

\* parser.py:97  button_all and not self._button_all_pressed
RisingEdge(flag, recorded) == flag /\ recorded # "True"

\* parser.py:104  not button_all and self._button_all_pressed
FallingEdge(flag, recorded) == ~flag /\ recorded = "True"

\* parser.py:116-120  _cancel_spell_reset_timeout, for an assigned attribute:
\* Task.cancel() stops a task that has not finished.
CancelledTasks ==
    IF reset_task.task = 0 THEN tasks
    ELSE [tasks EXCEPT ![reset_task.task].state = IF @ = "pending" THEN "cancelled" ELSE @]

\* parser.py:87-114  _callback_buttons for one dict from McwClient, given the
\* mask it was built from and what stop() returns if it is called.
\* Reading an attribute that was never assigned raises AttributeError, which
\* leaves the callback at that line.
CallbackButtons(mask, outcome) ==
    LET flag == ButtonAll(mask)
        ev   == [NoEvent EXCEPT !.mask = mask, !.all = flag, !.prev = last.all,
                                !.outcome = outcome, !.tracked = spell_tracker,
                                !.coord = coordinators]
    IN
    /\ buttons_data' = IF coordinators THEN {mask} ELSE buttons_data       \* 89-90
    /\ IF ~spell_tracker                                                   \* 93
       THEN /\ last' = ev
            /\ UNCHANGED <<button_all_pressed, reset_task, tasks, tracker_active,
                           tracker_calls, spell_data>>
       ELSE IF button_all_pressed = "unset"                                \* 97, 104
       THEN /\ last' = [ev EXCEPT !.raised = "AttributeError"]
            /\ UNCHANGED <<button_all_pressed, reset_task, tasks, tracker_active,
                           tracker_calls, spell_data>>
       ELSE IF RisingEdge(flag, button_all_pressed)
       THEN IF ~reset_task.assigned                                        \* 99, 118
            THEN /\ last' = [ev EXCEPT !.raised = "AttributeError"]
                 /\ UNCHANGED <<button_all_pressed, reset_task, tasks, tracker_active,
                                tracker_calls, spell_data>>
            ELSE /\ reset_task' = NoTask                                   \* 119-120
                 /\ tasks' = Append(CancelledTasks,
                                    [kind |-> "led_on", state |-> "pending"])   \* 100
                 /\ tracker_active' = TRUE                                 \* 101
                 /\ tracker_calls' = Append(tracker_calls, "start")
                 /\ button_all_pressed' = "True"                           \* 114
                 /\ last' = [ev EXCEPT !.started = TRUE, !.cancel_ran = TRUE]
                 /\ UNCHANGED <<spell_data>>
       ELSE IF FallingEdge(flag, button_all_pressed)
       THEN /\ tracker_active' = FALSE                                     \* 107
            /\ tracker_calls' = Append(tracker_calls, "stop")
            /\ spell_data' = IF outcome # "None" /\ coordinators           \* 108-110
                             THEN Append(spell_data, outcome) ELSE spell_data
            /\ tasks' = tasks \o <<[kind |-> "led_off", state |-> "pending"],   \* 106
                                   [kind |-> "reset", state |-> "pending"]>>    \* 112
            /\ reset_task' = [assigned |-> TRUE, task |-> Len(tasks) + 2]
            /\ button_all_pressed' = "False"                               \* 114
            /\ last' = [ev EXCEPT !.stopped = TRUE, !.armed = TRUE,
                                  !.published = (outcome # "None" /\ coordinators)]
       ELSE /\ button_all_pressed' = IF flag THEN "True" ELSE "False"      \* 114
            /\ last' = ev
            /\ UNCHANGED <<reset_task, tasks, tracker_active, tracker_calls, spell_data>>
    /\ link' = NoLink /\ imu' = NoBatch /\ call' = NoCall
    /\ UNCHANGED <<client_state, session, spell_tracker, coordinators, clientVars,
                   wrapVars, parseVars, trackerVars, laterVars>>

\* parser.py:122-131  _spell_reset_timeout: the sleep of task k is over.  No
\* behaviour of SpecDevice creates a task, since every button event handled
\* with a tracker leaves _callback_buttons at line 97 or 104, so this step is
\* not a disjunct of NextDevice.
SpellResetTimeout(k) ==
    /\ k \in PendingResets
    /\ tasks' = [tasks EXCEPT ![k].state = "done"]
    /\ spell_data' = IF coordinators THEN Append(spell_data, "awaiting") ELSE spell_data
    /\ UNCHANGED <<linkVars, spell_tracker, coordinators, button_all_pressed, reset_task,
                   tracker_active, tracker_calls, buttons_data, last, clientVars,
                   wrapVars, parseVars, trackerVars, laterVars>>

Contains(seq, x) == \E i \in 1..Len(seq) : seq[i] = x

\* mcw.py:66-190  the methods class McwClient defines.
McwClientMethods ==
    {"is_connected", "register_callbck", "start_notify", "stop_notify", "write",
     "read", "write_command", "init_wand", "keep_alive", "get_wand_address",
     "get_box_address", "get_wand_no"}

\* parser.py:192-207  the calls connect() makes on self._mcw, in order: the
\* model is read (a command that waits for its response) and the wand set up
\* only while self.model is unset, the IMU stream is started only with a
\* tracker.
ConnectCalls(known, tracked) ==
    <<"register_callback", "start_notify">>
        \o (IF known THEN <<>> ELSE <<"get_wand_device_id", "init_wand">>)
        \o (IF tracked THEN <<"imu_streaming_start">> ELSE <<>>)

\* parser.py:201  the call of connect() that writes a command and waits for
\* its response.
ResponseCalls == {"get_wand_device_id"}

\* The calls of connect() whose transport I/O can fail.
ConnectFaults == {"none", "start_notify", "get_wand_device_id", "init_wand",
                  "imu_streaming_start"}

EstablishOutcomes == {"ok", "raises", "down"}

\* The first call of the list that raises: one McwClient does not define
\* (AttributeError) or the one whose I/O fails; Len(calls) + 1 if none does.
FirstRaise(calls, f) ==
    LET bad == {i \in 1..Len(calls) : calls[i] \notin McwClientMethods \/ calls[i] = f}
    IN  IF bad = {} THEN Len(calls) + 1 ELSE CHOOSE i \in bad : \A j \in bad : i <= j

\* The calls that returned before the first one that raised.
Completed(calls, f) == SubSeq(calls, 1, FirstRaise(calls, f) - 1)

\* parser.py:171-214  connect.  An already connected device returns True at
\* once (173-174).  Otherwise establish_connection raises, or gives a client
\* that is not connected (180-181), or gives a connected one: then self._mcw
\* is made (191) and the calls follow until one raises; `except Exception`
\* (212-214) turns every exception into the return value False.
Connect(e, f) ==
    LET calls == ConnectCalls(session.model, spell_tracker)
        done  == Completed(calls, f)
        base  == [NoCall EXCEPT !.op = "connect", !.tracked = spell_tracker,
                                !.coord = coordinators]
    IN  /\ IF client_state = "connected"                                   \* 173-174
           THEN /\ call' = [base EXCEPT !.was = TRUE, !.ret = "True"]
                /\ UNCHANGED <<client_state, session>>
           ELSE IF e = "raises"                                            \* 177-179
           THEN /\ call' = [base EXCEPT !.ret = "False"]
                /\ UNCHANGED <<client_state, session>>
           ELSE IF e = "down"                                              \* 180-181
           THEN /\ call' = [base EXCEPT !.ret = "False", !.done = <<"establish_connection">>]
                /\ client_state' = "closed"
                /\ UNCHANGED session
           ELSE /\ client_state' = "connected"
                /\ session' = [mcw       |-> TRUE,                         \* 191
                               notifying |-> Contains(done, "start_notify"),
                               model     |-> session.model
                                             \/ Contains(done, "get_wand_device_id")]
                /\ call' = [base EXCEPT
                               !.ret  = IF done = calls THEN "True" ELSE "False",
                               !.done = <<"establish_connection">> \o done]
        /\ UNCHANGED <<link, imu, spell_tracker, coordinators, button_all_pressed,
                       reset_task, tasks, tracker_active, tracker_calls, spell_data,
                       buttons_data, last, clientVars, wrapVars, parseVars, trackerVars,
                       laterVars>>

\* mcw.py:32-43  disconnect_on_missing_services around stop_notify: a missing
\* service or characteristic makes the wrapper clear the cache and disconnect
\* before it raises again; client.disconnect() is reached only when
\* clear_cache() did not raise.
WrapperDisconnects(s, cc) == s = "missing" /\ cc = "ok"

\* parser.py:220-228  the calls disconnect() makes on a connected client,
\* whether they return or raise: imu_streaming_stop raises inside its own
\* try (223-226); stop_notify (227) and client.disconnect() (228) are covered
\* by the outer `except Exception` only, so line 228 is not reached when
\* stop_notify raises.
DisconnectTried(s, cc) ==
    (IF session.mcw THEN <<"imu_streaming_stop", "stop_notify">> ELSE <<>>)
        \o (IF session.mcw /\ s # "ok"
            THEN (IF WrapperDisconnects(s, cc) THEN <<"client.disconnect">> ELSE <<>>)
            ELSE <<"client.disconnect">>)

\* parser.py:216-241  disconnect: the try block runs the calls above; the
\* outer `except Exception` keeps every exception inside; the finally block
\* gives the all-released dict to the button coordinator, if there is one.
Disconnect(s, cc, d) ==
    LET up     == client_state = "connected"                       \* 220
        tried  == IF up THEN DisconnectTried(s, cc) ELSE <<>>
        closed == /\ up
                  /\ Contains(tried, "client.disconnect")
                  /\ (d = "ok" \/ WrapperDisconnects(s, cc))
    IN  /\ client_state # "None"                                   \* 218
        /\ client_state' = IF closed THEN "closed" ELSE client_state
        /\ session' = IF closed THEN [session EXCEPT !.notifying = FALSE] ELSE session
        /\ buttons_data' = IF coordinators THEN {0} ELSE buttons_data   \* 234-241
        /\ link' = [op |-> "disconnect", coord |-> coordinators]
        /\ call' = [NoCall EXCEPT !.op = "disconnect", !.was = up, !.done = tried,
                                  !.tracked = spell_tracker, !.coord = coordinators,
                                  !.published = coordinators]
        /\ UNCHANGED <<imu, spell_tracker, coordinators, button_all_pressed, reset_task,
                       tasks, tracker_active, tracker_calls, spell_data, last, clientVars,
                       wrapVars, parseVars, trackerVars, laterVars>>

\* The link drops: client.is_connected turns false.  parser.py:177-179 gives
\* establish_connection no disconnected callback, so no code of McwDevice runs.
ConnectionFault ==
    /\ client_state = "connected"
    /\ client_state' = "closed"
    /\ link' = [op |-> "fault", coord |-> coordinators]
    /\ UNCHANGED <<imu, session, call, spell_tracker, coordinators, button_all_pressed, reset_task,
                   tasks, tracker_active, tracker_calls, spell_data, buttons_data, last,
                   clientVars, wrapVars, parseVars, trackerVars, laterVars>>

\* parser.py:157-160  _callback_imu for a batch of n samples: the batch goes
\* to the IMU coordinator; SpellTracker.update is not called.
CallbackImu(n) ==
    /\ imu' = [n |-> n, calls |-> Len(tracker_calls),
               published |-> coordinators]
    /\ UNCHANGED <<tracker_calls>>
    /\ UNCHANGED <<client_state, link, session, call, spell_tracker, coordinators,
                   button_all_pressed, reset_task, tasks, tracker_active, spell_data,
                   buttons_data, last, clientVars, wrapVars, parseVars, trackerVars,
                   laterVars>>

(***************************************************************************)
(* SpellTracker (spell_tracker.py)                                         *)
(***************************************************************************)
\* spell_tracker.py:189  self._active and self._points_count < self._MAX_POINTS
\* with the bound test dropped.
BufferHasRoomAlways(count) == TRUE

\* spell_tracker.py:189
BufferHasRoom(count) == count < MAX_POINTS

\* spell_tracker.py:202  self._points_count = 0, left out.
StartCountKept(count) == count

\* spell_tracker.py:202
StartCount(count) == 0

\* spell_tracker.py:148  if self._ref_forward is None, taken on every update.
FirstSampleAlways(ref) == TRUE

\* spell_tracker.py:148
FirstSample(ref) == ref = 0

\* spell_tracker.py:130  if not self._active, never taken.
InactiveNever(a) == FALSE

\* spell_tracker.py:130  if not self._active
Inactive(a) == ~a

\* spell_tracker.py:88-110  the dataclass defaults.
InitTracker ==
    /\ active = FALSE
    /\ points_count = 0
    /\ ref_forward = 0
    /\ ref_up = "None"
    /\ grav_est = "None"
    /\ plane = "None"
    /\ quat = "identity"
    /\ smoothed = "zero"
    /\ ret = [op |-> "", value |-> "None"]
    /\ starts = 0
    /\ updates = 0
    /\ buffered = 0
    /\ prior = [active |-> FALSE, points |-> FALSE]

\* spell_tracker.py:196-207  start()
TrackerStart ==
    /\ starts < MaxStarts
    /\ starts' = starts + 1
    /\ grav_est' = "None"                                  \* 199
    /\ plane' = "None"                                     \* 200-201
    /\ points_count' = StartCount(points_count)            \* 202
    /\ quat' = "identity"                                  \* 203
    /\ ref_forward' = 0                                    \* 204
    /\ ref_up' = "None"                                    \* 205
    /\ smoothed' = "zero"                                  \* 206
    /\ active' = TRUE                                      \* 207
    /\ updates' = 0
    /\ buffered' = 0
    /\ prior' = [active |-> active, points |-> points_count > 0]
    /\ ret' = [op |-> "start", value |-> "None"]
    /\ UNCHANGED <<clientVars, wrapVars, parseVars, deviceVars, laterVars>>

\* spell_tracker.py:112-194  update() for one IMU sample; gravityLike says
\* whether the accelerometer magnitude lies in [_GRAV_MIN_G, _GRAV_MAX_G].
TrackerUpdate(gravityLike) ==
    /\ updates < MAX_POINTS + MaxOverflow
    /\ IF Inactive(active)                                 \* 130-131
       THEN /\ ret' = [op |-> "update", value |-> "None"]
            /\ UNCHANGED <<points_count, ref_forward, ref_up, grav_est, plane, quat,
                           smoothed, updates, buffered>>
       ELSE /\ updates' = updates + 1
            /\ quat' = "estimate"                          \* 140
            /\ IF FirstSample(ref_forward)                 \* 148
               THEN /\ ref_forward' = updates + 1          \* 149
                    /\ ref_up' = "set"                     \* 152-153
                    /\ grav_est' = "initial"               \* 154
                    /\ plane' = "initial"                  \* 155
                    /\ ret' = [op |-> "update", value |-> "origin"]     \* 156
                    /\ UNCHANGED <<points_count, smoothed, buffered>>
               ELSE /\ grav_est' = IF gravityLike THEN "filtered" ELSE grav_est  \* 160-163
                    /\ plane' = "rebuilt"                  \* 167
                    /\ smoothed' = "filtered"              \* 184
                    /\ IF BufferHasRoom(points_count)      \* 189
                       THEN /\ points_count' = points_count + 1           \* 190-192
                            /\ buffered' = buffered + 1
                       ELSE UNCHANGED <<points_count, buffered>>
                    /\ ret' = [op |-> "update", value |-> "point"]      \* 194
                    /\ UNCHANGED <<ref_forward, ref_up>>
    /\ UNCHANGED <<active, starts, prior, clientVars, wrapVars, parseVars, deviceVars, laterVars>>

\* spell_tracker.py:257-298  _recognize_spell: np.min of the empty slice
\* _points[:0] raises ValueError (line 259); otherwise the interpreter's
\* answer decides between a name of SPELL_NAMES and None (295-298).
RecognizeSpell(count, answer) == IF count = 0 THEN "ValueError" ELSE answer

\* spell_tracker.py:209-215  stop()
TrackerStop(answer) ==
    /\ active' = FALSE                                     \* 214
    /\ ret' = [op |-> "stop", value |-> RecognizeSpell(points_count, answer)]
    /\ UNCHANGED <<points_count, ref_forward, ref_up, grav_est, plane, quat, smoothed,
                   starts, updates, buffered, prior, clientVars, wrapVars, parseVars,
                   deviceVars, laterVars>>

(***************************************************************************)
(* RemoteTensorSpellDetector (remote_tensor_spell_detector.py)             *)
(***************************************************************************)
\* What can come back for one POST to /invoke:
\*   invoke   how the request ended: "ok" or the exception it raised
\*   body     the decoded JSON body: a dict or something else
\*   outputs  body["outputs"]: missing, not a list, an empty list, a list
\*   entry    outputs[0]: an object (dict) or another JSON value
\*   data     outputs[0]["data"]: missing, not numeric, empty, probabilities
\*   nested   data carries a batch dimension ([[...]])
\*   confident  the largest probability reaches the threshold
\*   named    SPELL_NAMES has an entry at the argmax index
Replies ==
    [invoke : {"ok", "timeout", "io_error", "http_error", "bad_json"},
     body : {"dict", "non_dict"},
     outputs : {"missing", "non_list", "empty_list", "list"},
     entry : {"object", "number"},
     data : {"missing", "non_numeric", "empty", "probs"},
     nested : BOOLEAN, confident : BOOLEAN, named : BOOLEAN]

NoReply == [invoke |-> "ok", body |-> "dict", outputs |-> "list", entry |-> "object",
            data |-> "probs", nested |-> FALSE, confident |-> TRUE, named |-> TRUE]

\* remote_tensor_spell_detector.py:92-103  _invoke: every exception of the
\* request, of raise_for_status and of resp.json() is caught and gives None.
Invoke(r) ==
    IF r.invoke # "ok" THEN "None"                          \* 101-103
    ELSE IF r.body # "dict" THEN "None"                     \* 99
    ELSE IF r.outputs \in {"missing", "non_list"} THEN "None"   \* 99-100
    ELSE r.outputs

\* remote_tensor_spell_detector.py:60  outputs[0].get("data"), outside any
\* try: a value without .get raises AttributeError.
EntryData(r) == IF r.entry = "object" THEN r.data ELSE "AttributeError"

\* remote_tensor_spell_detector.py:79  self.SPELL_NAMES[best_index], outside
\* any try: an index without a name raises IndexError.
SpellName(r) == IF r.named THEN "Lumos" ELSE "IndexError"

\* remote_tensor_spell_detector.py:38-79  detect, for a (50, 2) array
detect(r) ==
    LET outputs == Invoke(r)                                \* 56
        probs   == EntryData(r)                             \* 60
    IN  IF outputs \in {"None", "empty_list"} THEN "None"   \* 57-58
        ELSE IF probs = "AttributeError" THEN probs
        ELSE IF probs = "missing" THEN "None"               \* 61-62
        ELSE IF probs \in {"non_numeric", "empty"} THEN "None"  \* 68-74
        ELSE IF ~r.confident THEN "None"                    \* 76-77
        ELSE SpellName(r)                                   \* 79

Detect(r) ==
    /\ reply' = r
    /\ detected' = detect(r)
    /\ UNCHANGED restDetect

InitDetect ==
    /\ reply = NoReply
    /\ detected = "idle"

(***************************************************************************)
(* Protocol.build_set_threshold (protocol.py:184-195)                      *)
(***************************************************************************)
\* The (min, max) byte pairs a list is made of.
ThresholdPairs == {<<1, 2>>, <<1, 255>>, <<200, 2>>, <<200, 255>>}

\* protocol.py:188  len(thresholds) != 4, with only the short lists refused.
WrongCountShort(t) == Len(t) < 4

\* protocol.py:188  if len(thresholds) != 4
WrongCount(t) == Len(t) # 4

\* protocol.py:192-193  for min_v, max_v in thresholds: payload.extend([min_v, max_v])
RECURSIVE ExtendPairs(_, _)
ExtendPairs(payload, t) ==
    IF t = <<>> THEN payload
    ELSE ExtendPairs(payload \o <<Head(t)[1], Head(t)[2]>>, Tail(t))

\* protocol.py:184-195; OpcodeTX.CMD_SET_THRESHOLD = 0x70 (line 25)
build_set_threshold(t) ==
    IF WrongCount(t) THEN Raise("ValueError")                   \* 188-189
    ELSE [kind |-> "bytes", value |-> ExtendPairs(<<112>>, t)]  \* 191-194

AppendPair(pair) ==
    /\ built = NoneValue
    /\ Len(thresholds) < MaxPairs
    /\ thresholds' = Append(thresholds, pair)
    /\ UNCHANGED <<built, restBuild>>

Build ==
    /\ built = NoneValue
    /\ built' = build_set_threshold(thresholds)
    /\ UNCHANGED <<thresholds, restBuild>>

InitBuild ==
    /\ thresholds = <<>>
    /\ built = NoneValue

(***************************************************************************)
(* Path preprocessing: ShapeSpellDetector._resample / _normalize           *)
(* (shape_spell_detector.py:38-74), gesture_core.normalize                 *)
(* (gesture_core.py:55-61) and the preprocessing inside                    *)
(* SpellTracker._recognize_spell (spell_tracker.py:257-285).               *)
(*                                                                         *)
(* Coordinates are integers on a grid whose step is ResampleN - 1, and     *)
(* consecutive points differ in at most one coordinate, so the segment     *)
(* lengths, the interval I = path_length / (n - 1) and the interpolated    *)
(* points are all exact integers.  What floating point adds is the         *)
(* outcome of a comparison of two values that are equal in exact           *)
(* arithmetic: Rounding says which way those comparisons fall.             *)
(***************************************************************************)
GridStep == ResampleN - 1
GridX == {0, GridStep, 2 * GridStep}
GridY == {0, GridStep}
Rounding == {"exact", "below"}

Abs(a) == IF a < 0 THEN -a ELSE a
MaxOf(a, b) == IF a >= b THEN a ELSE b
Last(q) == q[Len(q)]

\* np.linalg.norm(b - a) for points that differ in at most one coordinate
Norm(a, b) == Abs(b[1] - a[1]) + Abs(b[2] - a[2])

\* shape_spell_detector.py:40
RECURSIVE PathLength(_)
PathLength(points) ==
    IF Len(points) < 2 THEN 0
    ELSE Norm(points[1], points[2]) + PathLength(Tail(points))

\* shape_spell_detector.py:54  D + d >= I, in floating point
ReachesInterval(D, d, I, fp) == D + d > I \/ (D + d = I /\ fp = "exact")

\* shape_spell_detector.py:55-57
Interpolate(pt1, pt2, D, d, I) ==
    <<pt1[1] + ((I - D) * (pt2[1] - pt1[1])) \div d,
      pt1[2] + ((I - D) * (pt2[2] - pt1[2])) \div d>>

\* shape_spell_detector.py:48-63; i counts from 1, so pt1 = src[i] and
\* pt2 = src[i + 1]
RECURSIVE Walk(_, _, _, _, _, _)
Walk(src, i, D, new, I, fp) ==
    IF i >= Len(src) THEN [new |-> new, src |-> src]
    ELSE LET pt1 == src[i]
             pt2 == src[i + 1]
             d   == Norm(pt1, pt2)
             q   == Interpolate(pt1, pt2, D, d, I)
         IN  IF ReachesInterval(D, d, I, fp)
             THEN Walk(SubSeq(src, 1, i) \o <<q>> \o SubSeq(src, i + 1, Len(src)),
                       i + 1, 0, Append(new, q), I, fp)
             ELSE Walk(src, i + 1, D + d, new, I, fp)

\* shape_spell_detector.py:65-66
RECURSIVE PadTo(_, _, _)
PadTo(new, n, pt) == IF Len(new) >= n THEN new ELSE PadTo(Append(new, pt), n, pt)

\* shape_spell_detector.py:42  if I == 0: return points
ZeroInterval(I) == I = 0

\* shape_spell_detector.py:38-67  ShapeSpellDetector._resample
Resample(points, n, fp) ==
    LET I == PathLength(points) \div (n - 1)
    IN  IF ZeroInterval(I) \/ points = <<>> THEN points
        ELSE LET w == Walk(points, 1, 0, <<points[1]>>, I, fp)
             IN  SubSeq(PadTo(w.new, n, Last(w.src)), 1, n)

MinOver(points, k) == CHOOSE v \in {points[i][k] : i \in DOMAIN points} :
                          \A i \in DOMAIN points : v <= points[i][k]
MaxOver(points, k) == CHOOSE v \in {points[i][k] : i \in DOMAIN points} :
                          \A i \in DOMAIN points : v >= points[i][k]

\* A divisor: the extent it was computed from, and whether it went through
\* np.maximum(extent, 1e-5).  Its value is max(extent, 1e-5) when floored
\* and the extent itself when not.
Divisor(extent, floored) == [extent |-> extent, floored |-> floored]

\* shape_spell_detector.py:69-74  ShapeSpellDetector._normalize: the
\* numerators points - min_vals and the two divisors of size
ShapeNormalize(points) ==
    IF points = <<>> THEN Raise("ValueError")
    ELSE LET minx == MinOver(points, 1)
             miny == MinOver(points, 2)
         IN  [kind |-> "normalized",
              offsets |-> [i \in DOMAIN points |->
                              <<points[i][1] - minx, points[i][2] - miny>>],
              size |-> <<Divisor(MaxOver(points, 1) - minx, TRUE),
                         Divisor(MaxOver(points, 2) - miny, TRUE)>>]

\* gesture_core.py:55-61  normalize
normalize(points) ==
    IF points = <<>> THEN Raise("ValueError")
    ELSE LET min_vals == <<MinOver(points, 1), MinOver(points, 2)>>
             max_vals == <<MaxOver(points, 1), MaxOver(points, 2)>>
         IN  [kind |-> "normalized",
              offsets |-> [i \in DOMAIN points |->
                              <<points[i][1] - min_vals[1],
                                points[i][2] - min_vals[2]>>],
              size |-> <<Divisor(max_vals[1] - min_vals[1], TRUE),
                         Divisor(max_vals[2] - min_vals[2], TRUE)>>]

\* spell_tracker.py:268-276, 285: int(position) after i additions of
\* stride = count / 50, clamped to the last point; a position that is a
\* whole number in exact arithmetic may be just below it in floating point
SampleIdx(i, count, fp) ==
    LET whole == (i * count) \div ResampleN
        idx   == IF fp = "below" /\ i * count > 0 /\ (i * count) % ResampleN = 0
                 THEN whole - 1 ELSE whole
    IN  IF idx >= count THEN count - 1 ELSE idx

\* spell_tracker.py:258-285  the input tensor of SpellTracker._recognize_spell
TrackerPreprocess(points, fp) ==
    IF points = <<>> THEN Raise("ValueError")                  \* 259
    ELSE LET min_x == MinOver(points, 1)
             min_y == MinOver(points, 2)
             range_x == MaxOver(points, 1) - min_x
             range_y == MaxOver(points, 2) - min_y
             range_val == MaxOf(range_x, range_y)              \* 266
         IN  [kind |-> "normalized",
              offsets |-> [i \in 1..ResampleN |->
                  LET pt == points[SampleIdx(i - 1, Len(points), fp) + 1]
                  IN  <<pt[1] - min_x, pt[2] - min_y>>],       \* 278-283
              size |-> <<Divisor(range_val, FALSE), Divisor(range_val, FALSE)>>]

\* The caller appends a point that differs from the last one in at most one
\* coordinate.
AddPoint(pt) ==
    /\ pre = NoneValue
    /\ Len(path) < MaxPath
    /\ path # <<>> => (pt[1] = Last(path)[1] \/ pt[2] = Last(path)[2])
    /\ path' = Append(path, pt)
    /\ UNCHANGED <<pre, restShape>>

\* shape_spell_detector.py:83-84, gesture_core.py:55-61 and
\* spell_tracker.py:258-285 applied to the same path
Preprocess(fp) ==
    /\ pre = NoneValue
    /\ pre' = [kind |-> "pre", fp |-> fp,
               resampled |-> Resample(path, ResampleN, fp),
               shape |-> ShapeNormalize(Resample(path, ResampleN, fp)),
               core |-> normalize(path),
               tracker |-> TrackerPreprocess(path, fp)]
    /\ UNCHANGED <<path, restShape>>

InitShape ==
    /\ path = <<>>
    /\ pre = NoneValue

(***************************************************************************)
(* ShapeSpellDetector.predict_shape / detect                               *)
(* (shape_spell_detector.py:76-97, 122-142).  Scores and thresholds are in *)
(* hundredths; the score 1 - mean distance of the input to a template is   *)
(* an input of the model.                                                  *)
(***************************************************************************)
TemplateLabels == {"Circle", "Line"}
Scores == {-20, 60, 95}
Thresholds == {0, 90}
PositionCounts == {9, 10}

\* shape_spell_detector.py:82  len(points) < 10
TooShort(n) == n < 10

\* shape_spell_detector.py:89-95: the best template so far, in the order of
\* self.templates; none stands for best_score = -inf, best_label = "Unknown"
RECURSIVE BestTemplate(_, _, _)
BestTemplate(tpls, score, best) ==
    IF tpls = <<>> THEN best
    ELSE LET t == Head(tpls)
         IN  IF ~t.fifty THEN BestTemplate(Tail(tpls), score, best)     \* 90
             ELSE IF best.none \/ score[t.label] > best.score           \* 93
                  THEN BestTemplate(Tail(tpls), score,
                           [none |-> FALSE, label |-> t.label,
                            score |-> score[t.label]])
                  ELSE BestTemplate(Tail(tpls), score, best)

\* shape_spell_detector.py:76-97  predict_shape: (best_label, score)
predict_shape(n, tpls, score) ==
    IF TooShort(n) THEN <<"Too Short", 0>>                              \* 82
    ELSE LET best == BestTemplate(tpls, score,
                         [none |-> TRUE, label |-> "Unknown", score |-> 0])
         IN  <<best.label, IF best.none THEN 0 ELSE MaxOf(0, best.score)>>  \* 97

\* shape_spell_detector.py:122-142  detect
ShapeDetect(n, tpls, score, threshold) ==
    LET p == predict_shape(n, tpls, score)
    IN  IF p[2] < threshold THEN "None" ELSE p[1]                       \* 137-142

\* gesture_io.py:42-85 / shape_spell_detector.py:26-36: one more template in
\* self.templates, of 50 points or of another length; the templates are
\* loaded by __init__, before any detect
LoadTemplate(label, fifty) ==
    /\ classified = NoneValue
    /\ Len(templates) < MaxTemplates
    /\ \A i \in DOMAIN templates : templates[i].label # label
    /\ templates' = Append(templates, [label |-> label, fifty |-> fifty])
    /\ UNCHANGED <<classified, restClassify>>

ClassifyShape(n, score, threshold) ==
    /\ classified' = [kind |-> "detect", n |-> n, score |-> score,
                      threshold |-> threshold,
                      result |-> ShapeDetect(n, templates, score, threshold)]
    /\ UNCHANGED <<templates, restClassify>>

InitClassify ==
    /\ templates = <<>>
    /\ classified = NoneValue

(***************************************************************************)
(* GestureIO.save / GestureIO.load (gesture_io.py:12-85)                   *)
(*                                                                         *)
(* A coordinate is "0.5", which float32 holds exactly, "0.1", the float64  *)
(* nearest to one tenth, which float32 does not hold, or "0.1f", the       *)
(* float32 nearest to one tenth.                                           *)
(***************************************************************************)
Coordinates == {"0.5", "0.1"}
PointLists == {<<>>, <<<<"0.5", "0.5">>>>, <<<<"0.1", "0.5">>, <<"0.5", "0.1">>>>}
IOLabels == {"Circle", "file"}
TemplateDicts == UNION {[L -> PointLists] : L \in SUBSET IOLabels}

\* A path: os.path.splitext(path)[1].lower() is its ext
Paths == {[stem |-> "model", ext |-> ".json"], [stem |-> "model", ext |-> ".npz"],
          [stem |-> "model", ext |-> ".txt"], [stem |-> "notes", ext |-> ".txt"]}
NoFile == [format |-> "absent"]
OtherFile == [format |-> "text"]

\* np.array(v, dtype=np.float32) / astype(np.float32) of one number
Float32(v) == IF v = "0.1" THEN "0.1f" ELSE v

\* np.array(v).tolist(), json.dump and json.load of one number: a float64 is
\* written with the digits that read back as the same float64, and a
\* float32 widens to a float64 of the same value
JsonNumber(v) == v

\* {k: np.array(v, dtype=np.float32) for k, v in d.items()}
Float32Dict(d) ==
    [k \in DOMAIN d |->
        [i \in DOMAIN d[k] |-> <<Float32(d[k][i][1]), Float32(d[k][i][2])>>]]

\* {k: np.array(v).tolist() for k, v in d.items()}, written and read back
JsonDict(d) ==
    [k \in DOMAIN d |->
        [i \in DOMAIN d[k] |-> <<JsonNumber(d[k][i][1]), JsonNumber(d[k][i][2])>>]]

\* gesture_io.py:36  np.savez_compressed(path, **np_data): a label that is
\* the name of the function's own first parameter cannot be passed by keyword
KeywordClash(d) == "file" \in DOMAIN d

\* gesture_io.py:12-40  save: the file written, or the exception
save(d, p) ==
    IF p.ext = ".json"                                                \* 23
    THEN [kind |-> "written",
          file |-> [format |-> "json", type |-> "template_matcher",
                    templates |-> JsonDict(d)]]            \* 25-30
    ELSE IF p.ext = ".npz"                                            \* 33
    THEN IF KeywordClash(d) THEN Raise("TypeError")                   \* 36
         ELSE [kind |-> "written",
               file |-> [format |-> "npz", arrays |-> Float32Dict(d)]]  \* 35-36
    ELSE Raise("ValueError")                                          \* 40

\* gesture_io.py:61  if not os.path.exists(source), before the extension
ExistsFirst(f) == f = NoFile

\* gesture_io.py:60-85  load of a path, given what is stored there
load(p, f) ==
    IF ExistsFirst(f) THEN Raise("FileNotFoundError")                 \* 61-62
    ELSE IF p.ext = ".json"
    THEN [kind |-> "dict",
          value |-> Float32Dict(f.templates)]   \* 69-72
    ELSE IF p.ext = ".npz"
    THEN [kind |-> "dict", value |-> Float32Dict(f.arrays)]      \* 76-77
    ELSE Raise("ValueError")                                          \* 80

NoIO == [op |-> "", path |-> [stem |-> "", ext |-> ""], result |-> NoneValue]

Save(d, p) ==
    LET r == save(d, p)
    IN  /\ fs' = IF r.kind = "written" THEN [fs EXCEPT ![p] = r.file] ELSE fs
        /\ saved' = IF r.kind = "written" THEN [saved EXCEPT ![p] = [kind |-> "dict", value |-> d]]
                    ELSE saved
        /\ io' = [op |-> "save", path |-> p, result |-> r]
        /\ UNCHANGED restIO

Load(p) ==
    /\ io' = [op |-> "load", path |-> p, result |-> load(p, fs[p])]
    /\ UNCHANGED <<fs, saved, restIO>>

\* One file of another format is there already.
InitIO ==
    /\ fs = [p \in Paths |-> IF p.stem = "notes" THEN OtherFile ELSE NoFile]
    /\ saved = [p \in Paths |-> NoneValue]
    /\ io = NoIO

InitClient ==
    /\ connected = TRUE
    /\ command_data = "None"
    /\ event = FALSE
    /\ pc = [t \in Callers |-> "idle"]
    /\ attempt = [t \in Callers |-> 0]
    /\ resp = [t \in Callers |-> FALSE]
    /\ result = [t \in Callers |-> ""]
    /\ exc = [t \in Callers |-> ""]
    /\ ncalls = [t \in Callers |-> 0]
    /\ hist = [t \in Callers |-> NoHist]

InitWrap ==
    /\ wconnected = TRUE
    /\ wrap = NoWrap
    /\ nwrapped = 0

InitParseIdle ==
    /\ data = <<>>
    /\ parsed = <<>>

\* The device at rest, for the specifications of the other components.
InitDeviceIdle ==
    /\ construction = McwDeviceInit(FALSE, "ok", "ok")
    /\ spell_tracker = FALSE
    /\ coordinators = FALSE
    /\ button_all_pressed = "unset"
    /\ reset_task = [assigned |-> FALSE, task |-> 0]
    /\ tasks = <<>>
    /\ tracker_active = FALSE
    /\ tracker_calls = <<>>
    /\ spell_data = <<>>
    /\ buttons_data = {}
    /\ last = NoEvent
    /\ native = <<>>
    /\ InitLink

InitLater == InitDetect /\ InitBuild /\ InitShape /\ InitClassify /\ InitIO

Init == InitClient /\ InitWrap /\ InitParseIdle /\ InitDeviceIdle /\ InitTracker
        /\ InitLater

Next ==
    \/ \E t \in Callers, r \in BOOLEAN : CallWriteCommand(t, r)
    \/ \E t \in Callers, o \in {"ok"} \cup Faults, cc \in {"ok", "fail"},
          dc \in {"ok", "fail"} : WriteDone(t, o, cc, dc)
    \/ \E t \in Callers : ReadReturn(t)
    \/ \E t \in Callers : ReadWoken(t)
    \/ \E t \in Callers : ReadTimeout(t)
    \/ \E t \in Callers : BackoffDone(t)
    \/ \E t \in Callers : Finish(t)
    \/ \E p \in Payloads : Notify(p)

Spec == Init /\ [][Next]_vars

NextWrap ==
    \/ \E op \in Wrapped, o \in {"ok"} \cup Faults, cc \in {"ok", "fail"},
          dc \in {"ok", "fail"} : WrappedCall(op, o, cc, dc)
    \/ Reconnect

SpecWrap == Init /\ [][NextWrap]_vars

NextParse ==
    \/ \E b \in 0..255 : AppendByte(b)
    \/ Parse

SpecParse == Init /\ [][NextParse]_vars

NextDevice ==
    \/ RegisterCoordinator
    \/ \E n \in NativeSpells : CallbackSpell(n)
    \/ \E mask \in ButtonMasks, o \in StopOutcomes : CallbackButtons(mask, o)
    \/ Connect("ok", "none")
    \/ \E d \in {"ok", "fail"} : Disconnect("ok", "ok", d)
    \/ ConnectionFault
    \/ \E n \in 1..MaxBatch : CallbackImu(n)

InitDeviceSpec == InitClient /\ InitWrap /\ InitParseIdle /\ InitDevice /\ InitTracker
                  /\ InitLater

SpecDevice == InitDeviceSpec /\ [][NextDevice]_vars

\* The link of the device alone, with every outcome of the transport.
NextLink ==
    \/ RegisterCoordinator
    \/ \E e \in EstablishOutcomes, f \in ConnectFaults : Connect(e, f)
    \/ \E s \in {"ok"} \cup Faults, cc \in {"ok", "fail"}, d \in {"ok", "fail"} :
          Disconnect(s, cc, d)
    \/ ConnectionFault

SpecLink == InitDeviceSpec /\ [][NextLink]_vars

NextTracker ==
    \/ TrackerStart
    \/ \E g \in BOOLEAN : TrackerUpdate(g)
    \/ \E a \in StopOutcomes : TrackerStop(a)

SpecTracker == Init /\ [][NextTracker]_vars

NextDetect == \E r \in Replies : Detect(r)

SpecDetect == Init /\ [][NextDetect]_vars

NextBuild ==
    \/ \E pair \in ThresholdPairs : AppendPair(pair)
    \/ Build

SpecBuild == Init /\ [][NextBuild]_vars

NextShape ==
    \/ \E pt \in GridX \X GridY : AddPoint(pt)
    \/ \E fp \in Rounding : Preprocess(fp)

SpecShape == Init /\ [][NextShape]_vars

NextClassify ==
    \/ \E label \in TemplateLabels, fifty \in BOOLEAN : LoadTemplate(label, fifty)
    \/ \E n \in PositionCounts, threshold \in Thresholds,
          score \in [TemplateLabels -> Scores] :
            ClassifyShape(n, score, threshold)

SpecClassify == Init /\ [][NextClassify]_vars

NextIO ==
    \/ \E d \in TemplateDicts, p \in Paths : Save(d, p)
    \/ \E p \in Paths : Load(p)

SpecIO == Init /\ [][NextIO]_vars

(***************************************************************************)
(* Claims                                                                  *)
(***************************************************************************)
InCall(t) == pc[t] \in {"writing", "reading", "woken", "backoff"}

\* C1: the clear-slot / write / wait-for-response steps of two concurrent
\* calls of write_command never interleave: while one call has cleared the
\* slot or written and has not yet returned or raised, no other call has
\* performed its slot clear and write.
C1_NoInterleaving == Cardinality({t \in Callers : InCall(t)}) <= 1

\* C2: one call of write_command makes at most 3 attempts; it retries a
\* failed attempt only while fewer than 3 were made; it returns only when
\* the current attempt succeeded and every earlier one failed; after the
\* third failure it raises the fault of that last attempt.
C2_AtMostThreeAttempts ==
    \A t \in Callers :
        /\ attempt[t] <= max_retries
        /\ hist[t].fails <= max_retries
        /\ pc[t] = "backoff" => attempt[t] < max_retries /\ hist[t].fails = attempt[t]
        /\ pc[t] = "returned" =>
               /\ hist[t].last = "ok"
               /\ hist[t].fails = attempt[t] - 1
               /\ result[t] # "None"
        /\ pc[t] = "raised" =>
               /\ attempt[t] = max_retries
               /\ hist[t].fails = max_retries
               /\ exc[t] = hist[t].last
               /\ exc[t] \in Faults \cup {"timeout"}

\* A call that failed three times and raised, and a call that returned on
\* its third attempt.
C2_Witness ==
    /\ \E t \in Callers : pc[t] = "raised" /\ hist[t].fails = max_retries
    /\ \E t \in Callers : pc[t] = "returned" /\ attempt[t] = max_retries

\* C3: a write that fails with a missing-service or missing-characteristic
\* fault is not retried: that call makes exactly one write attempt and the
\* fault propagates to the caller.
C3_MissingNotRetried ==
    \A t \in Callers :
        hist[t].missing => attempt[t] = 1 /\ pc[t] = "raised" /\ exc[t] = "missing"

\* C4: when a wrapped operation fails with a missing-service or
\* missing-characteristic fault while the client is connected, clear_cache
\* and then disconnect are called before the fault reaches the caller, and
\* the fault that reaches the caller is the original one, also when
\* clear_cache or disconnect itself fails.
C4_ClearCacheThenDisconnect ==
    (wrap.outcome = "missing" /\ wrap.wasConnected) =>
        /\ wrap.calls = <<"clear_cache", "disconnect">>
        /\ wrap.raised = "missing"

ResponseKinds == {"ResponseFirmware", "ResponseBoxAddress", "ResponseSerialNumber",
                  "ResponseSKU", "ResponseManufacturerID", "ResponseDeviceID",
                  "ResponseEdition", "ResponseCompanionAddress", "ResponseWandType",
                  "ResponseThreshold"}
StreamKinds == {"EventButton", "EventSpell", "EventIMU"}

\* C5: for every byte sequence parse_response and parse_stream return a
\* typed value or None; neither raises.
C5_ParsersTotal ==
    parsed # <<>> =>
        /\ parsed[1].kind \in ResponseKinds \cup {"None"}
        /\ parsed[2].kind \in StreamKinds \cup {"None"}

\* The last button event, handled with a tracker configured, was an
\* all-pressed edge: its flag is all-pressed and the state before it
\* (Released at construction, else the flag of the event before) was not.
AllPressedEdge == last.tracked /\ last.all /\ ~last.prev

\* The same for a released edge.
ReleasedEdge == last.tracked /\ ~last.all /\ last.prev

C11_StopNeverRaises ==
    (starts >= 1 /\ ret.op = "stop") => ret.value \in StopOutcomes

\* C15: in every reachable state 0 <= _points_count <= 8192, and an update()
\* that arrives when the buffer holds 8192 points leaves the buffer and the
\* count as they are and returns the smoothed point.
C15_BufferBounded ==
    /\ points_count \in 0..MAX_POINTS
    /\ [][/\ points_count' \in 0..MAX_POINTS
          /\ (active /\ points_count = MAX_POINTS /\ updates' = updates + 1) =>
                 /\ points_count' = points_count
                 /\ buffered' = buffered
                 /\ ret' = [op |-> "update", value |-> "point"]]_vars

\* An update() has arrived at a full buffer.
C15_Witness ==
    /\ active /\ points_count = MAX_POINTS
    /\ updates = MAX_POINTS + 2
    /\ ret = [op |-> "update", value |-> "point"]

\* C16: after start(), whatever the tracker was before, the buffer count is
\* 0, reference forward, reference up, gravity estimate and plane basis are
\* unset, the quaternion is the identity, the smoothing state is zero and the
\* tracker is active; the points a stop() classifies, _points[:count], are
\* the points buffered since the last start() and no others.
C16_StartResets ==
    /\ ret.op = "start" =>
           /\ points_count = 0
           /\ ref_forward = 0 /\ ref_up = "None"
           /\ grav_est = "None" /\ plane = "None"
           /\ quat = "identity" /\ smoothed = "zero"
           /\ active
    /\ points_count = buffered

\* A session that was never stopped and had buffered points was started
\* again, and the new session has buffered a point and was stopped.
C16_Witness ==
    /\ prior = [active |-> TRUE, points |-> TRUE]
    /\ ret.op = "stop" /\ points_count = 1

\* C17: the first update() after start() returns the point (0,0) and records
\* the reference forward vector and the initial gravity estimate; no later
\* update() of the session changes the reference forward vector, which stays
\* as recorded until the next start().
C17_ReferenceFixedOnce ==
    /\ updates = 0 => ref_forward = 0
    /\ updates >= 1 => ref_forward = 1 /\ ref_up = "set" /\ grav_est # "None"
    /\ (active /\ ret.op = "update" /\ updates = 1) =>
           ret.value = "origin" /\ grav_est = "initial" /\ points_count = 0
    /\ (active /\ ret.op = "update" /\ updates > 1) => ret.value = "point"

\* A session in which updates followed the first one.
C17_Witness ==
    /\ active /\ updates = 3 /\ ref_forward = 1
    /\ ret = [op |-> "update", value |-> "point"]

\* The request failed, or the reply is malformed: the body is not a dict,
\* outputs is missing or not a list, outputs[0] is not an object, data is
\* missing or not numeric, or the argmax index has no spell name.
Malformed(r) ==
    \/ r.invoke # "ok"
    \/ r.body # "dict"
    \/ r.outputs \in {"missing", "non_list"}
    \/ r.entry # "object"
    \/ r.data \in {"missing", "non_numeric"}
    \/ ~r.named

\* C12: detect returns None and does not raise whenever the remote invoke
\* times out, fails with an I/O or HTTP error, or returns a malformed
\* response.
C12_DetectDegradesToNone ==
    (detected # "idle" /\ Malformed(reply)) => detected = "None"

\* C13: after disconnect() has run, or the link has dropped, while a session
\* was tracking (the last button event was an all-pressed edge), the session
\* is back at idle: the recorded all-pressed state is false, the tracker is
\* inactive, no reset timer is pending and the all-released button state has
\* been given to the button coordinator.
C13_DisconnectReturnsToIdle ==
    (link.op \in {"disconnect", "fault"} /\ AllPressedEdge) =>
        /\ button_all_pressed = "False"
        /\ ~tracker_active
        /\ PendingResets = {}
        /\ link.coord => buttons_data = {0}

\* C14: every sample of an IMU batch delivered while a session is tracking
\* (after an all-pressed edge) has been passed to SpellTracker.update, once
\* and in order: the calls on the tracker grew by one update per sample.
C14_EverySamplePassed ==
    (imu.n > 0 /\ AllPressedEdge) =>
        /\ Len(tracker_calls) = imu.calls + imu.n
        /\ \A i \in (imu.calls + 1)..Len(tracker_calls) : tracker_calls[i] = "update"

\* The text of a MAC address carried in bytes 1..6 of d: the six bytes in
\* reversed order, two uppercase hex digits each, joined by colons.
MacText(d) ==
    Hex02X(d[7]) \o ":" \o Hex02X(d[6]) \o ":" \o Hex02X(d[5]) \o ":" \o
    Hex02X(d[4]) \o ":" \o Hex02X(d[3]) \o ":" \o Hex02X(d[2])

IsMacResponse(d) == Len(d) = 7 /\ d[1] = 10

\* protocol.py:233-236: parse_response decodes exactly the 7-byte payloads
\* with opcode 0x0A as a MAC address, as MacText says.
ParseResponseMac ==
    parsed # <<>> =>
        IF IsMacResponse(data)
        THEN parsed[1] = [kind |-> "ResponseBoxAddress", mac_address |-> MacText(data)]
        ELSE parsed[1].kind # "ResponseBoxAddress"

\* C18: a 7-byte payload whose first byte is the MAC-address response opcode
\* decodes to bytes 1..6 reversed, as uppercase hex pairs joined by colons; a
\* payload of another length or opcode is not decoded as a MAC address, by
\* parse_response and by get_wand_address / get_box_address alike.
C18_MacDecode ==
    /\ ParseResponseMac
    /\ parsed # <<>> =>
           parsed[3] = IF IsMacResponse(data) THEN MacText(data) ELSE ""

\* C19: for every payload of at least 2 bytes with the button-event opcode
\* parse_stream returns an EventButton whose four flags are bits 0, 1, 2 and
\* 3 of the mask byte; a mask with no bit set gives an EventButton with all
\* flags false, not None.
C19_ButtonFlagsAreMaskBits ==
    (parsed # <<>> /\ Len(data) >= 2 /\ data[1] = 17) =>
        LET mask == data[2] IN
        parsed[2] = [kind |-> "EventButton", mask |-> mask,
                     is_big_pressed |-> (mask % 2 = 1),
                     is_top_pressed |-> (mask % 4 >= 2),
                     is_mid_pressed |-> (mask % 8 >= 4),
                     is_bot_pressed |-> (mask % 16 >= 8)]

\* Mask 0b0011 decoded to the bit-0 and bit-1 pads only.
C19_Witness ==
    /\ parsed # <<>> /\ Len(data) >= 2 /\ data[1] = 17 /\ data[2] = 3
    /\ parsed[2].is_big_pressed /\ parsed[2].is_top_pressed
    /\ ~parsed[2].is_mid_pressed /\ ~parsed[2].is_bot_pressed

\* C20: a spell-opcode notification shorter than 6 bytes, or one whose name
\* is empty after cleanup, gives no spell event: parse_stream returns None
\* and _handler does not call the spell callback; both decoders take the
\* length byte and the name from the same offsets, so they give the same
\* name for every spell-opcode notification.
C20_NoSpellEventFromShortPayload ==
    (parsed # <<>> /\ Len(data) >= 2 /\ data[1] = 36) =>
        /\ Len(data) < 6 => parsed[2] = NoneValue /\ parsed[4] = NoneValue
        /\ (parsed[2] = NoneValue) <=> (parsed[4] = NoneValue)
        /\ parsed[2] # NoneValue => parsed[2].name = parsed[4].name

\* The model a wand-type byte stands for: the ids of the table, and UNKNOWN
\* for every other byte.
ModelOfByte(tid) ==
    CASE tid = 0 -> "HARRY_POTTER"
      [] tid = 1 -> "HERMIONE_GRANGER"
      [] tid = 2 -> "RON_WEASLEY"
      [] tid = 3 -> "DUMBLEDORE"
      [] tid = 4 -> "NEWT_SCAMANDER"
      [] tid = 5 -> "WISE_UNKNOWN"
      [] OTHER   -> "UNKNOWN"

\* C21: for every product-info wand-type payload with at least one value
\* byte parse_response returns a ResponseWandType, for any model byte: an id
\* outside the table maps to UNKNOWN with the description "Unknown Model",
\* and no model byte raises.
C21_WandTypeTotal ==
    (parsed # <<>> /\ Len(data) >= 3 /\ data[1] = 14 /\ data[2] = 9
        /\ ~(Utf8Valid(data) /\ StartsWithMCW(DecodeIgnore(data)))) =>
        /\ parsed[1].kind = "ResponseWandType"
        /\ parsed[1].model_id = data[3]
        /\ parsed[1].model_name = ModelOfByte(data[3])
        /\ ModelOfByte(data[3]) = "UNKNOWN" => parsed[1].description = "Unknown Model"

\* C22: build_set_threshold fails with an invalid-argument error for every
\* list that does not hold exactly four (min,max) pairs; for four pairs it
\* returns 9 bytes: the threshold opcode, then min1,max1,...,min4,max4.
C22_ThresholdPacket ==
    built # NoneValue =>
        IF Len(thresholds) = 4
        THEN built = [kind |-> "bytes",
                      value |-> <<112, thresholds[1][1], thresholds[1][2],
                                  thresholds[2][1], thresholds[2][2],
                                  thresholds[3][1], thresholds[3][2],
                                  thresholds[4][1], thresholds[4][2]>>]
        ELSE built = Raise("ValueError")

\* A packet was built from four pairs that differ from each other.
C22_Witness ==
    /\ built # NoneValue /\ built.kind = "bytes"
    /\ Len(built.value) = 9
    /\ Cardinality({thresholds[i] : i \in 1..4}) = 4

\* C23: for every path of at least 2 points, paths of zero arc length
\* included, _resample(points, 50) returns exactly 50 points, the first of
\* them the first input point, padded with the final point when the source
\* is exhausted early.
C23_ResampleGivesFifty ==
    (pre # NoneValue /\ Len(path) >= 2) =>
        /\ Len(pre.resampled) = ResampleN
        /\ pre.resampled[1] = path[1]
        /\ pre.resampled[ResampleN] = Last(path)

\* The value of a divisor is at least the epsilon floor: it was floored, or
\* its extent is a positive number of grid steps.
AtLeastEpsilon(s) == s.floored \/ s.extent > 0

\* num divided by the divisor s lies in [0,1]
InUnitInterval(num, s) ==
    IF s.extent > 0 THEN 0 <= num /\ num <= s.extent
    ELSE s.floored /\ num = 0

Bounded(r) ==
    r.kind = "normalized" =>
        /\ AtLeastEpsilon(r.size[1]) /\ AtLeastEpsilon(r.size[2])
        /\ \A i \in DOMAIN r.offsets :
              /\ InUnitInterval(r.offsets[i][1], r.size[1])
              /\ InUnitInterval(r.offsets[i][2], r.size[2])

\* C24: for every path handed to normalization, paths of zero extent on one
\* or both axes included, the divisor is never smaller than the epsilon floor
\* and every output coordinate lies in [0,1], in ShapeSpellDetector._normalize,
\* in gesture_core.normalize and in SpellTracker._recognize_spell.
C24_NormalizeBounded ==
    pre # NoneValue => Bounded(pre.shape) /\ Bounded(pre.core) /\ Bounded(pre.tracker)

\* Two divisors have the same value.
SameDivisor(a, b) ==
    a.extent = b.extent /\ (a.extent = 0 => a.floored = b.floored)

\* C25: for every buffered path the preprocessing inside
\* SpellTracker._recognize_spell gives the same 50 normalized points as
\* _resample followed by _normalize: the same sample positions and the same
\* scaling of each coordinate.
C25_SamePreprocessing ==
    (pre # NoneValue /\ path # <<>>) =>
        /\ pre.tracker.kind = pre.shape.kind
        /\ pre.tracker.offsets = pre.shape.offsets
        /\ SameDivisor(pre.tracker.size[1], pre.shape.size[1])
        /\ SameDivisor(pre.tracker.size[2], pre.shape.size[2])

\* The templates of 50 points, the only ones predict_shape scores.
Scored == {i \in DOMAIN templates : templates[i].fifty}

\* C26: detect returns None or the label of a loaded template; a label is
\* returned only if that template has the highest score among the templates
\* of 50 points and that score is at least the threshold; for every threshold,
\* 0 included, and every input length no placeholder is returned.
C26_NoneOrBestTemplate ==
    (classified # NoneValue /\ classified.result # "None") =>
        \E i \in Scored :
            /\ classified.result = templates[i].label
            /\ \A j \in Scored :
                  classified.score[templates[j].label]
                      <= classified.score[templates[i].label]
            /\ classified.score[templates[i].label] >= classified.threshold

\* C27: constructing McwDevice never raises when the model file is absent or
\* the detector cannot be built; the device falls back to the wand's own
\* spell detection, and spell_detection_mode is "server" exactly when a
\* tracker was constructed and "wand" otherwise.
C27_ConstructorFallsBack ==
    /\ construction.raised = "None"
    /\ spell_tracker <=> (construction.exists /\ construction.detector = "ok"
                            /\ construction.built = "ok")
    /\ spell_detection_mode = IF spell_tracker THEN "server" ELSE "wand"
    /\ (~construction.exists \/ construction.detector # "ok")
           => spell_detection_mode = "wand"

\* The model file was there and the upload failed: the device is in "wand"
\* mode and has published a spell the wand detected itself.
C27_Witness ==
    /\ construction.exists /\ construction.detector = "HTTPError"
    /\ spell_detection_mode = "wand"
    /\ spell_data # <<>>

\* C28: a notification callback never classifies, nor waits for a response,
\* inside its body: on the released edge the button callback returns before
\* the classifier's round trip runs, having only scheduled follow-up work.
C28_CallbackOnlySchedules ==
    ReleasedEdge =>
        /\ last.raised = NoEvent.raised
        /\ ~last.stopped
        /\ ~last.published

Supported(p) == p.ext \in {".json", ".npz"}

\* C29: for every template dictionary, load(path) after save(data, path)
\* returns the same labels, each with the same sequence of (x, y) points, for
\* the .json and the .npz format; save and load raise ValueError for any
\* other file extension.
C29_RoundTrip ==
    /\ (io.op = "save" /\ Supported(io.path)) => io.result.kind = "written"
    /\ (io.op = "load" /\ Supported(io.path) /\ saved[io.path] # NoneValue) =>
           io.result = saved[io.path]
    /\ (io.op # "" /\ ~Supported(io.path)) => io.result = Raise("ValueError")

\* C30: write_command sends the packet again only after a fault raised by
\* the write itself: when the write succeeded and no response came within
\* the timeout, the timeout goes to the caller and the packet is not written
\* a second time.
C30_TimeoutNotRetried ==
    \A t \in Callers :
        hist[t].last = "timeout" => (pc[t] = "raised" /\ exc[t] = "timeout")

\* A caller that expects a response has cleared the slot and has not yet
\* returned or raised.
Outstanding(t) == resp[t] /\ pc[t] \in {"writing", "reading", "woken"}

\* C31: a streamed button or spell event that arrives while a command that
\* expects a response is outstanding is never stored in the pending-response
\* slot and never returned to the caller as the response.
C31_StreamNeverInSlot ==
    /\ (\E t \in Callers : Outstanding(t)) => command_data # "stream"
    /\ \A t \in Callers : (pc[t] = "returned" /\ resp[t]) => result[t] # "stream"

\* What read() makes of a stored payload (mcw.py:128).
AsRead(p) == IF p \in {"", "None", "empty"} THEN "empty" ELSE p

\* C32: a filled slot is left unchanged by every later notification until a
\* write_command that expects a response clears it; the waiting caller gets
\* exactly the first payload stored after the clear; the wake-up event is set
\* if and only if the slot is filled.
C32_SlotKeepsFirstPayload ==
    /\ [](event <=> command_data # "None")
    /\ [](\A t \in Callers :
            (pc[t] = "returned" /\ resp[t] /\ result[t] # "None") =>
                (hist[t].first # "" /\ result[t] = AsRead(hist[t].first)))
    /\ [][command_data # "None" =>
            (command_data' = command_data \/ command_data' = "None")]_vars

\* C33: after McwDevice is constructed with a tracker and before any button
\* event, the aggregate button state is Released and no reset timer is
\* pending, so the first all-pressed button event is handled without error
\* and starts a session.
C33_FirstPressStartsSession ==
    spell_tracker =>
        /\ last = NoEvent =>
               (button_all_pressed = "False" /\ reset_task = NoTask)
        /\ AllPressedEdge => (last.raised = NoEvent.raised /\ last.started)

\* The native spell events that found the spell coordinator registered.
RECURSIVE NamesWithCoordinator(_)
NamesWithCoordinator(q) ==
    IF q = <<>> THEN <<>>
    ELSE IF Head(q).coord THEN <<Head(q).name>> \o NamesWithCoordinator(Tail(q))
         ELSE NamesWithCoordinator(Tail(q))

\* C34: with a server-side tracker configured, native spell events are never
\* published to the spell coordinator and every published label comes from
\* SpellTracker.stop(); with no tracker, every native spell event is
\* published and button events never start or stop tracking or arm a reset
\* timer.
C34_TrackerOrNative ==
    /\ spell_tracker =>
           \A i \in DOMAIN spell_data :
               spell_data[i] \in (StopOutcomes \ {"None"}) \cup {"awaiting"}
    /\ ~spell_tracker =>
           /\ spell_data = NamesWithCoordinator(native)
           /\ tracker_calls = <<>> /\ ~tracker_active
           /\ tasks = <<>> /\ ~reset_task.assigned
           /\ ~last.started /\ ~last.stopped /\ ~last.armed

\* With a tracker, a native spell event found the coordinator registered and
\* nothing was published.
C34_Witness ==
    /\ spell_tracker
    /\ \E i \in DOMAIN native : native[i].coord
    /\ spell_data = <<>>

\* C35: update() called while the tracker is not active, before the first
\* start() or after stop(), returns None and leaves the orientation, the
\* reference frame, the gravity estimate, the smoothing state and the path
\* buffer unchanged.
C35_InactiveUpdateIsNoOp ==
    [][(~active /\ ret'.op = "update") =>
          /\ ret'.value = "None"
          /\ UNCHANGED <<quat, ref_forward, ref_up, grav_est, plane, smoothed,
                         points_count, buffered, active>>]_vars

\* A session buffered a point and was stopped, and an update() came after.
C35_Witness ==
    /\ ~active /\ starts >= 1 /\ points_count >= 1
    /\ ret = [op |-> "update", value |-> "None"]

\* In the calls of the last connect(), start_notify returned before call i.
AfterSubscription(i) == \E j \in 1..(i - 1) : call.done[j] = "start_notify"

SubscribedFirst ==
    \A i \in 1..Len(call.done) :
        call.done[i] \in ResponseCalls \cup {"imu_streaming_start"} => AfterSubscription(i)

ImuStartOnlyWithTracker == Contains(call.done, "imu_streaming_start") => call.tracked

AlreadyConnectedReturnsTrue == call.was => (call.ret = "True" /\ call.done = <<>>)

FailureReturnsFalse ==
    /\ ~call.raised
    /\ (call.ret = "True" /\ ~call.was) =>
           /\ Contains(call.done, "start_notify")
           /\ call.tracked => Contains(call.done, "imu_streaming_start")

TrueMeansSubscribed == call.ret = "True" => session.notifying

DisconnectRequested == Contains(call.done, "client.disconnect")

AllReleasedPublished == call.coord => (call.published /\ buttons_data = {0})

\* C37: after disconnect() has returned for a client that was connected,
\* client.disconnect() has been called, also when stopping the IMU stream or
\* stop_notify failed; disconnect() has not raised; and the all-released
\* button state has been given to the button coordinator if one is registered.
C37_DisconnectAlwaysRequested ==
    (call.op = "disconnect" /\ call.was) =>
        /\ DisconnectRequested
        /\ ~call.raised
        /\ AllReleasedPublished

====
